---- MODULE Spec2Model ----
(***************************************************************************)
(* Model of NeuroPrompt's ModelManager (src/core/model_manager.py): the    *)
(* provider registry (primary_model, fallback_models, model_status) and    *)
(* the resilient completion client built on it (get_available_model,       *)
(* generate_completion, reset_model_status).                               *)
(***************************************************************************)
EXTENDS Integers, Sequences, FiniteSets, TLC

\* ------------------------------------------------------------------------
\* Bounds
\* ------------------------------------------------------------------------
NumIds == 3
MaxFallbacks == 2
NumCallers == 2
MaxRuns == 2
MaxGraphStages == 3
MaxDeps == 2

IdNames == <<"A", "B", "C", "D", "E", "F">>
Ids == {IdNames[i] : i \in 1..NumIds}
FallbackLists == UNION {[1..k -> Ids] : k \in 1..MaxFallbacks}
Callers == 1..NumCallers

\* What one requests.post / raise_for_status / json() round can do:
\* a 2xx JSON answer, a requests.exceptions.RequestException (transport
\* error or non-2xx status), an exception of another class, or nothing at
\* all: requests.post is called without a timeout, so when the provider
\* never answers it never returns.
Outcomes == {"ok", "RequestException", "Exception", "NoResponse"}

NoModel == "-"

VARIABLES
    primary_model,      \* self.primary_model
    fallback_models,    \* self.fallback_models, a list
    model_status,       \* self.model_status, identifier -> bool
    healthy,            \* providers whose endpoint answers every request
    last,               \* the most recent call on the manager and its outcome
                        \* (tick alternates, telling a call from the one before)
    prev,               \* summary of the call before it
    pc, iter, idx, model, \* per concurrent caller: position, loop counter,
                          \* scan index, selected model
    stale,              \* callers whose request in flight was issued before
                        \* the most recent full reset
    graph,              \* the tasks handed to Crew(...) and their dependencies
    phase,              \* where the current pipeline run stands
    started,            \* the stages started in this run, in order
    current,            \* the stage that is executing
    artifacts,          \* the output of each stage completed in this run
    store,              \* the files under data/, by path
    runId,              \* number of the current run
    results             \* what generate_prompt returned last

config == <<primary_model, fallback_models>>
seqvars == <<last, prev>>
concvars == <<pc, iter, idx, model, stale>>
pipevars == <<graph, phase, started, current, artifacts, store, runId, results>>
vars == <<primary_model, fallback_models, model_status, healthy, last, prev,
          pc, iter, idx, model, stale,
          graph, phase, started, current, artifacts, store, runId, results>>

Range(s) == {s[i] : i \in 1..Len(s)}

\* ------------------------------------------------------------------------
\* The registry
\* ------------------------------------------------------------------------
\* __init__: model_status = {primary: True}; then one key per fallback.
InitialStatus(p, fs) == [m \in {p} \cup Range(fs) |-> TRUE]

\* Iteration order of the dict model_status: insertion order, the primary
\* first, then each fallback at its first occurrence.
RECURSIVE InsertAll(_, _, _)
InsertAll(keys, fs, i) ==
    IF i > Len(fs) THEN keys
    ELSE InsertAll(IF fs[i] \in Range(keys) THEN keys ELSE Append(keys, fs[i]),
                   fs, i + 1)

StatusKeys == InsertAll(<<primary_model>>, fallback_models, 1)

AllAvailable(status) == \A m \in DOMAIN status : status[m]
NoneAvailable(status) == \A m \in DOMAIN status : ~status[m]

\* Variant of the fallback scan that leaves out the flag test.
FirstFallbackUnchecked(status, i) ==
    IF i > Len(fallback_models) THEN 0 ELSE i

\* for model in self.fallback_models: if self.model_status[model]: return model
\* (index of the fallback returned, 0 when the loop falls through)
RECURSIVE FirstAvailableFallback(_, _)
FirstAvailableFallback(status, i) ==
    IF i > Len(fallback_models) THEN 0
    ELSE IF status[fallback_models[i]] THEN i
    ELSE FirstAvailableFallback(status, i + 1)

\* Variant of the reset that restores the primary only.
MarkPrimaryAvailable(status) == [status EXCEPT ![primary_model] = TRUE]

\* Variant of the reset that flips every flag.
MarkAllFlipped(status) == [m \in DOMAIN status |-> ~status[m]]

\* Variant of the reset that also registers the placeholder name.
MarkAllAvailableAddsKey(status) == [m \in DOMAIN status \cup {NoModel} |-> TRUE]

\* for model in self.model_status: self.model_status[model] = True
MarkAllAvailable(status) == [m \in DOMAIN status |-> TRUE]

\* Variant of the failure handler that forgets the mark.
MarkNothing(status, m) == status

\* Variant of the failure handler that marks the last fallback as well.
MarkUnavailableAndLast(status, m) ==
    [k \in DOMAIN status |->
        IF k \in {m, fallback_models[Len(fallback_models)]} THEN FALSE
        ELSE status[k]]

\* self.model_status[model] = False
MarkUnavailable(status, m) == [status EXCEPT ![m] = FALSE]

\* Variant of the selection that looks at the fallbacks before the primary.
GetAvailableModelFallbacksFirst(status) ==
    LET i == FirstAvailableFallback(status, 1) IN
    IF i # 0
    THEN [model |-> fallback_models[i], status |-> status, reset |-> FALSE]
    ELSE IF status[primary_model]
    THEN [model |-> primary_model, status |-> status, reset |-> FALSE]
    ELSE [model |-> primary_model, status |-> MarkAllAvailable(status),
          reset |-> TRUE]

\* get_available_model as a function of the flags: the model returned, the
\* flags afterwards, and whether the reset branch was taken.
GetAvailableModel(status) ==
    IF status[primary_model]
    THEN [model |-> primary_model, status |-> status, reset |-> FALSE]
    ELSE LET i == FirstAvailableFallback(status, 1) IN
         IF i # 0
         THEN [model |-> fallback_models[i], status |-> status, reset |-> FALSE]
         ELSE [model |-> primary_model, status |-> MarkAllAvailable(status),
               reset |-> TRUE]

\* Variant of the loop bound that counts list positions, not dict keys.
MaxAttemptsListLength == 1 + Len(fallback_models)

\* Variants of the loop bound: one more round, and the fallbacks only.
MaxAttemptsOneMore == Cardinality(DOMAIN model_status) + 1
MaxAttemptsFallbacksOnly == Len(fallback_models)

\* range(len(self.model_status))
MaxAttempts == Cardinality(DOMAIN model_status)

\* The retry loop of generate_completion from iteration i on, with the
\* outcome of the i-th request given by oc[i].
RECURSIVE CompletionLoop(_, _, _, _, _)
CompletionLoop(i, n, status, attempts, oc) ==
    IF i > n
    THEN [result |-> [kind |-> "None", model |-> NoModel],
          status |-> status, attempts |-> attempts]
    ELSE LET sel == GetAvailableModel(status)
             att == Append(attempts, [model |-> sel.model, outcome |-> oc[i],
                                      reset |-> sel.reset])
         IN  CASE oc[i] = "ok" ->
                    [result |-> [kind |-> "payload", model |-> sel.model],
                     status |-> sel.status, attempts |-> att]
               [] oc[i] = "RequestException" ->
                    CompletionLoop(i + 1, n, MarkUnavailable(sel.status, sel.model),
                                   att, oc)
               [] oc[i] = "NoResponse" ->
                    [result |-> [kind |-> "hung", model |-> NoModel],
                     status |-> sel.status, attempts |-> att]
               [] OTHER ->
                    [result |-> [kind |-> "raised", model |-> NoModel],
                     status |-> sel.status, attempts |-> att]

\* A healthy provider answers every request sent to it.
RespectsHealthy(attempts) ==
    \A i \in 1..Len(attempts) :
        attempts[i].model \in healthy => attempts[i].outcome = "ok"

\* ------------------------------------------------------------------------
\* The pipeline: stages, their wiring and their output files
\* ------------------------------------------------------------------------
\* tasks=[research_task, generate_task, critique_task, optimize_task]
TaskList == <<"research", "generate", "critique", "optimize">>
Stages == Range(TaskList)

\* Variant in which the dependencies= arguments are left out.
DependenciesNone == [s \in Stages |-> {}]

\* dependencies=[...] of each Task
Dependencies ==
    [s \in Stages |->
        CASE s = "research" -> {}
          [] s = "generate" -> {"research"}
          [] s = "critique" -> {"generate"}
          [] s = "optimize" -> {"generate", "critique"}]

NoFile == "-"

\* output_file=... of each Task; research_task has none
OutputFile ==
    [s \in Stages |->
        CASE s = "research" -> NoFile
          [] s = "generate" -> "data/generated_prompt.txt"
          [] s = "critique" -> "data/prompt_critique.txt"
          [] s = "optimize" -> "data/final_prompt.txt"]

Files == {"data/generated_prompt.txt", "data/prompt_critique.txt",
          "data/final_prompt.txt"}

\* open("data/final_prompt.txt", "r")
FinalPromptFile == "data/final_prompt.txt"

\* Text is identified by the run and the stage that produced it.
Content(run, stage) == [run |-> run, stage |-> stage]
Absent == Content(0, "absent")
\* final_prompt = "Could not generate prompt"
Placeholder == Content(0, "Could not generate prompt")

NoStage == "-"
NoResults == [final_prompt |-> Absent, process_info |-> "none"]

NoGraph == [tasks |-> <<>>, deps |-> [s \in {} |-> {}]]

\* The graph _create_crew builds.
CrewGraph == [tasks |-> TaskList, deps |-> Dependencies]

InitPipeline ==
    /\ graph = NoGraph
    /\ phase = "none"
    /\ started = <<>>
    /\ current = NoStage
    /\ artifacts = [s \in Stages |-> Absent]
    /\ store = [f \in Files |-> Absent]
    /\ runId = 0
    /\ results = NoResults

\* ------------------------------------------------------------------------
\* Initial states
\* ------------------------------------------------------------------------
NoCall == [op |-> "init", tick |-> 0, start |-> <<>>, attempts |-> <<>>,
           result |-> [kind |-> "none", model |-> NoModel]]
NoPrev == [op |-> "init", kind |-> "none", fresh |-> "-", once |-> FALSE]

InitCallers ==
    /\ pc = [c \in Callers |-> "idle"]
    /\ iter = [c \in Callers |-> 0]
    /\ idx = [c \in Callers |-> 0]
    /\ model = [c \in Callers |-> NoModel]
    /\ stale = {}
    /\ InitPipeline

\* ModelManager.__init__
Init ==
    /\ primary_model \in Ids
    /\ fallback_models \in FallbackLists
    /\ model_status = InitialStatus(primary_model, fallback_models)
    /\ healthy = {}
    /\ last = NoCall
    /\ prev = NoPrev
    /\ InitCallers

\* The registry argument of get_available_model and generate_completion
\* drawn from every assignment of the flags.
InitAny ==
    /\ primary_model \in Ids
    /\ fallback_models \in FallbackLists
    /\ model_status \in [{primary_model} \cup Range(fallback_models) -> BOOLEAN]
    /\ healthy = {}
    /\ last = NoCall
    /\ prev = NoPrev
    /\ InitCallers

\* ------------------------------------------------------------------------
\* Calls made one at a time
\* ------------------------------------------------------------------------
Fresh(status) == IF AllAvailable(status) THEN "all"
                 ELSE IF NoneAvailable(status) THEN "none" ELSE "some"

\* Every provider of the registry appears exactly once among the attempts.
EachOnce(attempts) ==
    /\ Len(attempts) = Cardinality(DOMAIN model_status)
    /\ {attempts[i].model : i \in 1..Len(attempts)} = DOMAIN model_status

Summary(call) == [op |-> call.op, kind |-> call.result.kind,
                  fresh |-> IF call.op = "init" THEN "-" ELSE Fresh(call.start),
                  once |-> EachOnce(call.attempts)]

\* The caller is still inside a generate_completion call that never returns.
Blocked == last.result.kind = "hung"

get_available_model ==
    LET sel == GetAvailableModel(model_status) IN
    /\ ~Blocked
    /\ model_status' = sel.status
    /\ last' = [op |-> "get", tick |-> 1 - last.tick, start |-> model_status,
                attempts |-> <<[model |-> sel.model, outcome |-> "-",
                                reset |-> sel.reset]>>,
                result |-> [kind |-> "model", model |-> sel.model]]
    /\ prev' = Summary(last)
    /\ UNCHANGED <<config, healthy, concvars, pipevars>>

generate_completion ==
    \E oc \in [1..MaxAttempts -> Outcomes] :
        LET r == CompletionLoop(1, MaxAttempts, model_status, <<>>, oc) IN
        /\ ~Blocked
        /\ RespectsHealthy(r.attempts)
        /\ model_status' = r.status
        /\ last' = [op |-> "gen", tick |-> 1 - last.tick, start |-> model_status,
                    attempts |-> r.attempts, result |-> r.result]
        /\ prev' = Summary(last)
        /\ UNCHANGED <<config, healthy, concvars, pipevars>>

reset_model_status ==
    /\ ~Blocked
    /\ model_status' = MarkAllAvailable(model_status)
    /\ last' = [op |-> "reset", tick |-> 1 - last.tick, start |-> model_status, attempts |-> <<>>,
                result |-> [kind |-> "none", model |-> NoModel]]
    /\ prev' = Summary(last)
    /\ UNCHANGED <<config, healthy, concvars, pipevars>>

Next ==
    \/ get_available_model
    \/ generate_completion
    \/ reset_model_status

Spec == Init /\ [][Next]_vars

SpecAny == InitAny /\ [][Next]_vars

\* Repeated generate_completion calls, one after another, on a registry in
\* any availability state of which at least one provider is healthy.
InitLive ==
    /\ primary_model \in Ids
    /\ fallback_models \in FallbackLists
    /\ model_status \in [{primary_model} \cup Range(fallback_models) -> BOOLEAN]
    /\ healthy \in SUBSET ({primary_model} \cup Range(fallback_models)) \ {{}}
    /\ last = NoCall
    /\ prev = NoPrev
    /\ InitCallers

SpecLive ==
    InitLive /\ [][generate_completion]_vars /\ WF_vars(generate_completion)

\* ------------------------------------------------------------------------
\* Concurrent callers of generate_completion on one ModelManager.  The class
\* holds no lock, so each read and each write of a flag is a step of its own.
\* ------------------------------------------------------------------------
\* generate_completion is entered: first iteration, get_available_model called.
Call(c) ==
    /\ pc[c] = "idle"
    /\ pc' = [pc EXCEPT ![c] = "primary"]
    /\ iter' = [iter EXCEPT ![c] = 0]
    /\ model' = [model EXCEPT ![c] = NoModel]
    /\ UNCHANGED <<config, model_status, healthy, seqvars, idx, stale, pipevars>>

\* if self.model_status[self.primary_model]: return self.primary_model
CheckPrimary(c) ==
    /\ pc[c] = "primary"
    /\ IF model_status[primary_model]
       THEN /\ model' = [model EXCEPT ![c] = primary_model]
            /\ pc' = [pc EXCEPT ![c] = "post"]
            /\ idx' = idx
       ELSE /\ pc' = [pc EXCEPT ![c] = "scan"]
            /\ idx' = [idx EXCEPT ![c] = 1]
            /\ model' = model
    /\ UNCHANGED <<config, model_status, healthy, seqvars, iter, stale, pipevars>>

\* One iteration of: for model in self.fallback_models
ScanFallback(c) ==
    /\ pc[c] = "scan"
    /\ IF model_status[fallback_models[idx[c]]]
       THEN /\ model' = [model EXCEPT ![c] = fallback_models[idx[c]]]
            /\ pc' = [pc EXCEPT ![c] = "post"]
            /\ idx' = [idx EXCEPT ![c] = 0]
       ELSE /\ model' = model
            /\ IF idx[c] < Len(fallback_models)
               THEN pc' = pc /\ idx' = [idx EXCEPT ![c] = idx[c] + 1]
               ELSE pc' = [pc EXCEPT ![c] = "reset"] /\ idx' = [idx EXCEPT ![c] = 1]
    /\ UNCHANGED <<config, model_status, healthy, seqvars, iter, stale, pipevars>>

\* One iteration of: for model in self.model_status: ... = True
\* and, after the last one, return self.primary_model
ResetStep(c) ==
    /\ pc[c] = "reset"
    /\ model_status' = [model_status EXCEPT ![StatusKeys[idx[c]]] = TRUE]
    /\ IF idx[c] < Len(StatusKeys)
       THEN /\ pc' = pc /\ idx' = [idx EXCEPT ![c] = idx[c] + 1] /\ model' = model
            /\ stale' = stale
       ELSE /\ pc' = [pc EXCEPT ![c] = "post"]
            /\ idx' = [idx EXCEPT ![c] = 0]
            /\ model' = [model EXCEPT ![c] = primary_model]
            /\ stale' = stale \cup {d \in Callers \ {c} : pc[d] = "post"}
    /\ UNCHANGED <<config, healthy, seqvars, iter, pipevars>>

\* requests.post(...), raise_for_status(), json() and the except clause.
Request(c) ==
    /\ pc[c] = "post"
    /\ \E o \in Outcomes :
        /\ model[c] \in healthy => o = "ok"
        /\ CASE o = "ok" ->
                  /\ pc' = [pc EXCEPT ![c] = "idle"]
                  /\ UNCHANGED <<model_status, iter>>
             [] o = "RequestException" ->
                  /\ model_status' = MarkUnavailable(model_status, model[c])
                  /\ iter' = [iter EXCEPT ![c] = iter[c] + 1]
                  /\ pc' = [pc EXCEPT ![c] =
                              IF iter[c] + 1 < MaxAttempts THEN "primary" ELSE "idle"]
             [] o = "NoResponse" ->
                  /\ pc' = [pc EXCEPT ![c] = "blocked"]
                  /\ UNCHANGED <<model_status, iter>>
             [] OTHER ->
                  /\ pc' = [pc EXCEPT ![c] = "idle"]
                  /\ UNCHANGED <<model_status, iter>>
    /\ stale' = stale \ {c}
    /\ UNCHANGED <<config, healthy, seqvars, idx, model, pipevars>>

NextConc ==
    \E c \in Callers :
        \/ Call(c)
        \/ CheckPrimary(c)
        \/ ScanFallback(c)
        \/ ResetStep(c)
        \/ Request(c)

SpecConc == Init /\ [][NextConc]_vars

\* ------------------------------------------------------------------------
\* A pipeline run: run_neuroprompt -> NeuroPromptCrew() -> generate_prompt,
\* with the executor behind Crew.kickoff
\* ------------------------------------------------------------------------
Declared(g) == Range(g.tasks)

\* Variant of the validation that only looks for undeclared names.
ValidGraphNoCycleCheck(g) ==
    \A s \in Declared(g) : g.deps[s] \subseteq Declared(g)

\* Topological sort: peel off, round after round, the stages whose
\* dependencies are all peeled off already.
RECURSIVE TopoPeel(_, _)
TopoPeel(g, done) ==
    LET ready == {s \in Declared(g) \ done : g.deps[s] \subseteq done} IN
    IF ready = {} THEN done ELSE TopoPeel(g, done \cup ready)

\* Validation: every dependency is declared and the sort consumes the graph.
ValidGraph(g) ==
    /\ \A s \in Declared(g) : g.deps[s] \subseteq Declared(g)
    /\ TopoPeel(g, {}) = Declared(g)

Completed == {s \in Declared(graph) : artifacts[s] # Absent}

\* Variant of the readiness test that ignores the dependencies.
ReadyAnyTime(s) ==
    /\ s \in Declared(graph)
    /\ \A i \in 1..Len(started) : started[i] # s

\* A stage may start once all its dependencies have produced an artifact.
Ready(s) ==
    /\ s \in Declared(graph)
    /\ \A i \in 1..Len(started) : started[i] # s
    /\ graph.deps[s] \subseteq Completed

\* Variant of the persistence step that leaves the store alone.
WriteNothing(st, s, c) == st

\* The executor persists a completed stage under the stage's output file.
WriteArtifact(st, s, c) ==
    IF OutputFile[s] = NoFile THEN st
    ELSE [st EXCEPT ![OutputFile[s]] = c]

\* Variant in which the new crew takes over the manager of the run before.
KeptModelManager(status) == status

\* self.model_manager = ModelManager(): the flags of the new manager
NewModelManager(status) == InitialStatus(primary_model, fallback_models)

\* run_neuroprompt: a new NeuroPromptCrew with a new ModelManager, then
\* generate_prompt up to _create_crew (which asks for the available model).
StartRun ==
    /\ phase \in {"none", "returned"}
    /\ runId < MaxRuns
    /\ ~Blocked
    /\ runId' = runId + 1
    /\ LET fresh == NewModelManager(model_status)
           sel == GetAvailableModel(fresh) IN
       /\ model_status' = sel.status
       /\ last' = [op |-> "get", tick |-> 1 - last.tick, start |-> fresh,
                   attempts |-> <<[model |-> sel.model, outcome |-> "-",
                                   reset |-> sel.reset]>>,
                   result |-> [kind |-> "model", model |-> sel.model]]
       /\ prev' = NoPrev
    /\ graph' = CrewGraph
    /\ phase' = "created"
    /\ started' = <<>>
    /\ current' = NoStage
    /\ artifacts' = [s \in Stages |-> Absent]
    /\ UNCHANGED <<config, healthy, concvars, store, results>>

\* crew.kickoff(): the graph is validated before anything runs.
Validate ==
    /\ phase = "created"
    /\ phase' = IF ValidGraph(graph) THEN "running" ELSE "rejected"
    /\ UNCHANGED <<config, model_status, healthy, seqvars, concvars,
                   graph, started, current, artifacts, store, runId, results>>

\* A ready stage starts.  Its agent talks to the model named in its own
\* llm= argument; the ModelManager is not involved.
StartStage(s) ==
    /\ phase = "running"
    /\ current = NoStage
    /\ Ready(s)
    /\ current' = s
    /\ started' = Append(started, s)
    /\ UNCHANGED <<config, model_status, healthy, seqvars, concvars,
                   graph, phase, artifacts, store, runId, results>>

\* The executing stage completes, and its artifact is persisted, or fails,
\* and the executor halts.
FinishStage ==
    /\ phase = "running"
    /\ current # NoStage
    /\ \E ok \in BOOLEAN :
        IF ok
        THEN /\ artifacts' = [artifacts EXCEPT ![current] = Content(runId, current)]
             /\ store' = WriteArtifact(store, current, Content(runId, current))
             /\ phase' = IF Len(started) = Len(graph.tasks)
                         THEN "completed" ELSE "running"
        ELSE /\ phase' = "halted"
             /\ UNCHANGED <<artifacts, store>>
    /\ current' = NoStage
    /\ UNCHANGED <<config, model_status, healthy, seqvars, concvars,
                   graph, started, runId, results>>

\* The stage at which the run halted: started, no longer executing, and
\* without an artifact.
FailedStage ==
    IF Len(started) > 0 /\ current = NoStage
       /\ artifacts[started[Len(started)]] = Absent
    THEN started[Len(started)] ELSE NoStage

\* generate_prompt after kickoff: read data/final_prompt.txt, fall back to
\* the placeholder when the file is missing, return the results dict.
ReturnResults ==
    /\ phase \in {"completed", "halted", "rejected"}
    /\ results' = [final_prompt |-> IF store[FinalPromptFile] = Absent
                                    THEN Placeholder
                                    ELSE store[FinalPromptFile],
                   process_info |-> phase]
    /\ phase' = "returned"
    /\ UNCHANGED <<config, model_status, healthy, seqvars, concvars,
                   graph, started, current, artifacts, store, runId>>

NextPipeline ==
    \/ StartRun
    \/ Validate
    \/ \E s \in Stages : StartStage(s)
    \/ FinishStage
    \/ ReturnResults

SpecPipeline == Init /\ [][NextPipeline]_vars

\* Pipeline runs started when the manager of an earlier crew has been left
\* with any assignment of the flags.
SpecRunsAny == InitAny /\ [][NextPipeline]_vars

\* ------------------------------------------------------------------------
\* The executor handed an arbitrary graph
\* ------------------------------------------------------------------------
Undeclared == "undeclared"

Min(a, b) == IF a <= b THEN a ELSE b

\* The graphs of up to MaxGraphStages tasks, each depending on up to MaxDeps
\* names, declared or not.
Graphs ==
    UNION {
        LET tasks == SubSeq(TaskList, 1, k)
            names == Range(tasks) \cup {Undeclared} IN
        {[tasks |-> tasks, deps |-> d] :
            d \in [Range(tasks) ->
                     {D \in SUBSET names : Cardinality(D) <= MaxDeps}]}
        : k \in 1..Min(MaxGraphStages, Len(TaskList))}

InitGraph ==
    /\ primary_model = IdNames[1]
    /\ fallback_models = <<IdNames[2]>>
    /\ model_status = InitialStatus(primary_model, fallback_models)
    /\ healthy = {}
    /\ last = NoCall
    /\ prev = NoPrev
    /\ pc = [c \in Callers |-> "idle"]
    /\ iter = [c \in Callers |-> 0]
    /\ idx = [c \in Callers |-> 0]
    /\ model = [c \in Callers |-> NoModel]
    /\ stale = {}
    /\ graph \in Graphs
    /\ phase = "created"
    /\ started = <<>>
    /\ current = NoStage
    /\ artifacts = [s \in Stages |-> Absent]
    /\ store = [f \in Files |-> Absent]
    /\ runId = 1
    /\ results = NoResults

NextGraph ==
    \/ Validate
    \/ \E s \in Stages : StartStage(s)
    \/ FinishStage

SpecGraph == InitGraph /\ [][NextGraph]_vars

\* ------------------------------------------------------------------------
\* Properties
\* ------------------------------------------------------------------------
Selected == last.attempts[1].model
OutcomeAt(i) == last.attempts[i].outcome
FailedBefore(k) == \A i \in 1..(k - 1) : OutcomeAt(i) = "RequestException"

\* The selection policy stated declaratively: the primary when its flag is
\* set, otherwise the fallback at the least index whose flag is set.
ExpectedSelection(status) ==
    IF status[primary_model] THEN primary_model
    ELSE fallback_models[CHOOSE i \in 1..Len(fallback_models) :
                            /\ status[fallback_models[i]]
                            /\ \A j \in 1..(i - 1) : ~status[fallback_models[j]]]

\* C1: whenever a selection is made in a registry state with at least one
\* available provider, it returns the primary if the primary is available
\* and otherwise the first fallback, in declared order, that is available.
SelectionPolicy ==
    (last.op \in {"get", "gen"} /\ ~NoneAvailable(last.start))
        => Selected = ExpectedSelection(last.start)

SelectionPolicyWitness ==
    /\ last.op = "get"
    /\ Len(fallback_models) >= 2
    /\ ~last.start[primary_model]
    /\ ~last.start[fallback_models[1]]
    /\ last.start[fallback_models[2]]
    /\ last.result.model = fallback_models[2]

\* C2: get_available_model called with the primary and every fallback
\* unavailable marks every provider available and returns the primary.
SelfHealingReset ==
    (last.op = "get" /\ NoneAvailable(last.start))
        => /\ AllAvailable(model_status)
           /\ DOMAIN model_status = {primary_model} \cup Range(fallback_models)
           /\ last.result.model = primary_model

SelfHealingResetWitness ==
    /\ last.op = "get"
    /\ NoneAvailable(last.start)
    /\ Cardinality(DOMAIN model_status) >= 3
    /\ last.result.model = primary_model

\* C3: one generate_completion call issues at most n+1 requests, n being the
\* number of fallbacks, whatever the flags it starts from and whichever
\* requests fail.
AttemptBound ==
    last.op = "gen" => Len(last.attempts) <= Len(fallback_models) + 1

AttemptBoundWitness ==
    /\ last.op = "gen"
    /\ Len(last.attempts) = Len(fallback_models) + 1
    /\ Len(fallback_models) >= 2
    /\ last.result.kind = "None"

\* C4: from an all-available registry, when the first k-1 requests fail and
\* the k-th succeeds, the call has tried the first k providers in priority
\* order, returns the k-th provider's payload after exactly k attempts, and
\* leaves exactly the first k-1 providers unavailable.
FallbackToFirstWorking ==
    LET k == Len(last.attempts) IN
    (/\ last.op = "gen"
     /\ AllAvailable(last.start)
     /\ FailedBefore(k)
     /\ OutcomeAt(k) = "ok")
        => /\ k <= Len(StatusKeys)
           /\ \A i \in 1..k : last.attempts[i].model = StatusKeys[i]
           /\ last.result = [kind |-> "payload", model |-> StatusKeys[k]]
           /\ \A j \in 1..Len(StatusKeys) :
                  model_status[StatusKeys[j]] = (j >= k)

FallbackToFirstWorkingWitness ==
    /\ last.op = "gen"
    /\ AllAvailable(last.start)
    /\ Len(last.attempts) = 3
    /\ last.result = [kind |-> "payload", model |-> fallback_models[2]]
    /\ ~model_status[primary_model]
    /\ ~model_status[fallback_models[1]]
    /\ model_status[fallback_models[2]]

\* C5: from an all-available registry, when every request fails, the call
\* returns None after exactly one attempt per provider, made in priority
\* order, and leaves every provider unavailable.
TotalFailureFresh ==
    (/\ last.op = "gen"
     /\ AllAvailable(last.start)
     /\ FailedBefore(Len(last.attempts) + 1))
        => /\ last.result.kind = "None"
           /\ Len(last.attempts) = Cardinality(DOMAIN model_status)
           /\ \A i \in 1..Len(last.attempts) : last.attempts[i].model = StatusKeys[i]
           /\ NoneAvailable(model_status)

TotalFailureFreshWitness ==
    /\ last.op = "gen"
    /\ AllAvailable(last.start)
    /\ last.result.kind = "None"
    /\ Len(last.attempts) = 3
    /\ NoneAvailable(model_status)

\* The registry of the scenarios: a primary and two fallbacks, all distinct.
ThreeProviders ==
    Len(fallback_models) = 2 /\ Cardinality(DOMAIN model_status) = 3

\* What the call after a total failure is said to do: reset, first attempt
\* to the primary, and the primary's payload after one attempt if it answers.
RecoversOnPrimary ==
    /\ last.attempts[1].reset
    /\ Selected = primary_model
    /\ OutcomeAt(1) = "ok"
          => /\ last.result = [kind |-> "payload", model |-> primary_model]
             /\ Len(last.attempts) = 1
             /\ AllAvailable(model_status)

TotalFailureThenCall ==
    /\ ThreeProviders
    /\ prev.op = "gen"
    /\ prev.kind = "None"
    /\ prev.once
    /\ last.op = "gen"

\* C6 as stated: after a call on [A; B, C] in which A, B and C each failed
\* once and None was returned, the next generate_completion call resets the
\* registry and sends its first attempt to the primary, returning its
\* payload after one attempt if that attempt succeeds.
RecoveryAfterTotalFailureAsStated ==
    TotalFailureThenCall => RecoversOnPrimary

\* C6 amended: the same, for a failing call that started with every provider
\* available or with every provider unavailable.
RecoveryAfterTotalFailure ==
    (TotalFailureThenCall /\ prev.fresh \in {"all", "none"}) => RecoversOnPrimary

RecoveryAfterTotalFailureWitness ==
    /\ TotalFailureThenCall
    /\ prev.fresh = "all"
    /\ last.attempts[1].reset
    /\ last.result = [kind |-> "payload", model |-> primary_model]
    /\ Len(last.attempts) = 1

\* C7: generate_completion never lets an exception reach its caller: it
\* ends with a payload or with None, however a request fails.
NeverRaises ==
    last.op = "gen" => last.result.kind \in {"payload", "None"}

\* C8: generate_completion returns None only when, in that call, every
\* provider of the registry was attempted and every attempt failed; a call
\* in which some attempt succeeds returns a payload.
FailureOnlyOnExhaustion ==
    last.op = "gen"
        => /\ last.result.kind = "None"
                => /\ {last.attempts[i].model : i \in 1..Len(last.attempts)}
                         = {primary_model} \cup Range(fallback_models)
                   /\ FailedBefore(Len(last.attempts) + 1)
           /\ (\E i \in 1..Len(last.attempts) : OutcomeAt(i) = "ok")
                => last.result.kind = "payload"

FailureOnlyOnExhaustionWitness ==
    /\ last.op = "gen"
    /\ last.result.kind = "None"
    /\ ThreeProviders
    /\ Fresh(last.start) = "some"
    /\ \E i \in 2..Len(last.attempts) : last.attempts[i].reset

\* A caller is inside get_available_model, past its first read of a flag.
InSelection(c) == pc[c] \in {"scan", "reset"}

\* C9: the registry operations of concurrent callers are serialized: while
\* one caller is inside a selection (its scan of the flags and its possible
\* reset), no other caller's step changes a flag.
RegistrySerialized ==
    [][\A c \in Callers :
          (InSelection(c) /\ pc'[c] = pc[c] /\ idx'[c] = idx[c])
              => model_status' = model_status]_vars

\* C10: when some provider answers every request sent to it, repeated
\* generate_completion calls, made one after another from any availability
\* state, eventually return a payload.
NoPermanentWedge ==
    <>(last.op = "gen" /\ last.result.kind = "payload")

\* C11: a request that gets no answer counts as a failed attempt, so
\* generate_completion comes back even when a provider never answers.
TimeoutIsFailure ==
    last.op = "gen" => last.result.kind # "hung"

\* ------------------------------------------------------------------------
\* Properties of a pipeline run
\* ------------------------------------------------------------------------
\* The dependencies the specification states for the four stages.
Diamond ==
    [s \in Stages |->
        CASE s = "research" -> {}
          [] s = "generate" -> {"research"}
          [] s = "critique" -> {"generate"}
          [] s = "optimize" -> {"generate", "critique"}]

Executions(s) == {i \in 1..Len(started) : started[i] = s}

\* The stage's artifact of this run is on disk under the stage's own file.
Persisted(s) ==
    /\ OutputFile[s] # NoFile
    /\ \A t \in Stages \ {s} : OutputFile[t] # OutputFile[s]
    /\ store[OutputFile[s]] = Content(runId, s)

\* C12: in a run no stage executes twice, a run that completes has executed
\* each of research, generate, critique and optimize exactly once, and a
\* stage starts only when every stage it depends on has produced its
\* artifact in this run.
DependencyOrderedExecution ==
    /\ [](/\ \A s \in Stages : Cardinality(Executions(s)) <= 1
          /\ phase = "completed" =>
                \A s \in Stages : Cardinality(Executions(s)) = 1)
    /\ [][\A s \in Stages :
            (current' = s /\ current # s) =>
                \A d \in Diamond[s] : artifacts[d] = Content(runId, d)]_vars

DependencyOrderedExecutionWitness ==
    /\ phase = "completed"
    /\ started = <<"research", "generate", "critique", "optimize">>
    /\ \A s \in Stages : artifacts[s] = Content(runId, s)

\* C14: after a stage has failed no further stage is started, and the
\* artifact of every stage that completed before it is persisted.
FailurePolicy ==
    FailedStage # NoStage =>
        /\ current = NoStage
        /\ phase \in {"halted", "returned"}
        /\ \A s \in Stages :
              artifacts[s] = Absent \/ Persisted(s)

\* C15: whenever a stage is executing, the artifact of each of its
\* dependencies is recorded in the store under that dependency's own file.
WriteBeforeRead ==
    current # NoStage => \A d \in Diamond[current] : Persisted(d)

\* C16: the graph handed to the executor is the diamond, and its task list
\* (research, generate, critique, optimize) is a topological order of it.
WiresDiamond ==
    phase # "none" =>
        /\ graph.tasks = <<"research", "generate", "critique", "optimize">>
        /\ graph.deps = Diamond
        /\ \A i \in 1..Len(graph.tasks) :
              \A d \in graph.deps[graph.tasks[i]] :
                 \E j \in 1..(i - 1) : graph.tasks[j] = d

WiresDiamondWitness ==
    /\ phase = "running"
    /\ runId = MaxRuns
    /\ Len(graph.tasks) = 4
    /\ graph.deps["optimize"] = {"generate", "critique"}

\* A graph the specification calls invalid: a dependency names a stage that
\* is not declared, or some stages depend on each other in a circle.
InvalidGraph(g) ==
    \/ \E s \in Declared(g) : ~(g.deps[s] \subseteq Declared(g))
    \/ \E S \in SUBSET Declared(g) \ {{}} :
          \A s \in S : g.deps[s] \cap S # {}

\* C13: a graph with an undeclared dependency or with a cycle is rejected
\* before any stage executes: none of its stages ever starts.
FailFastValidation ==
    InvalidGraph(graph) =>
        /\ started = <<>>
        /\ current = NoStage
        /\ phase \in {"created", "rejected"}

FailFastValidationWitness ==
    /\ phase = "rejected"
    /\ "generate" \in Declared(graph)
    /\ graph.deps["research"] = {"generate"}
    /\ graph.deps["generate"] = {"research"}

\* C17: a final_prompt that generate_prompt returns is the artifact the
\* optimize stage produced in the run that returns it.
FinalPromptOfThisRun ==
    (phase = "returned" /\ results.final_prompt # Placeholder) =>
        results.final_prompt = Content(runId, "optimize")

\* C18: a run that returns normally returns an artifact as final_prompt.
ArtifactOrFailure ==
    phase = "returned" => results.final_prompt.run >= 1

\* C19: a stage that finishes has made its completion requests through
\* generate_completion.
StagesUseCompletionClient ==
    [][(current # NoStage /\ current' = NoStage) =>
            (last' # last /\ last'.op = "gen")]_vars

\* C20: once the generate stage has written its artifact, reading
\* data/generated_prompt.txt gives that artifact, and the completion of
\* any other stage leaves the file as it is.
ArtifactRoundTrip ==
    /\ [](artifacts["generate"] # Absent =>
            store["data/generated_prompt.txt"] = artifacts["generate"])
    /\ [][(current # NoStage /\ current # "generate") =>
            store'["data/generated_prompt.txt"] =
                store["data/generated_prompt.txt"]]_vars

ArtifactRoundTripWitness ==
    /\ runId = 2
    /\ artifacts["optimize"] = Content(2, "optimize")
    /\ store["data/prompt_critique.txt"] = Content(2, "critique")
    /\ store["data/generated_prompt.txt"] = Content(2, "generate")

\* ------------------------------------------------------------------------
\* Properties of the registry as a data structure
\* ------------------------------------------------------------------------
Registered == {primary_model} \cup Range(fallback_models)

\* C21: after construction no call adds, removes or reorders a provider:
\* primary_model and fallback_models never change, the keys of model_status
\* are always the primary plus the fallbacks, and every identifier a call
\* attempts or marks is one of them.
RegistryFixed ==
    /\ [](/\ DOMAIN model_status = Registered
          /\ \A i \in 1..Len(last.attempts) :
                last.attempts[i].model \in Registered
          /\ {m \in DOMAIN model_status : ~model_status[m]} \subseteq Registered)
    /\ [][/\ primary_model' = primary_model
          /\ fallback_models' = fallback_models
          /\ StatusKeys' = StatusKeys
          /\ DOMAIN model_status' = DOMAIN model_status]_vars

RegistryFixedWitness ==
    /\ prev.op = "reset"
    /\ last.op = "gen"
    /\ last.result.kind = "None"
    /\ Len(last.attempts) = 3

\* The two ways in which the flags are said to change, applied to the
\* attempts of a call from the i-th on: a selection marked as a reset sets
\* every flag, an attempt that failed clears the flag of its provider.
\* lawful tells whether the resets were made exactly when no flag was set.
RECURSIVE Replay(_, _, _)
Replay(status, attempts, i) ==
    IF i > Len(attempts) THEN [status |-> status, lawful |-> TRUE]
    ELSE LET a == attempts[i]
             selected == IF a.reset THEN [m \in DOMAIN status |-> TRUE]
                         ELSE status
             attempted == IF a.outcome = "RequestException"
                          THEN [m \in DOMAIN status |->
                                    IF m = a.model THEN FALSE ELSE selected[m]]
                          ELSE selected
             rest == Replay(attempted, attempts, i + 1)
         IN  [status |-> rest.status,
              lawful |-> rest.lawful /\ (a.reset <=> NoneAvailable(status))]

\* C22 as stated: whatever call was made, the flags after it are the flags
\* before it changed by the failed attempts and the resets on exhaustion of
\* that call, and by nothing else.
FlagsChangeInTwoWays ==
    last.op # "init" =>
        LET r == Replay(last.start, last.attempts, 1) IN
        r.lawful /\ model_status = r.status

\* C22 amended: the same for get_available_model and generate_completion,
\* while reset_model_status sets every flag whatever the flags were.
FlagsChangeInThreeWays ==
    /\ last.op \in {"get", "gen"} =>
          LET r == Replay(last.start, last.attempts, 1) IN
          r.lawful /\ model_status = r.status
    /\ last.op = "reset" =>
          model_status = [m \in DOMAIN last.start |-> TRUE]

FlagsChangeInThreeWaysWitness ==
    /\ last.op = "gen"
    /\ last.result.kind = "payload"
    /\ Len(last.attempts) = 3
    /\ last.attempts[2].reset
    /\ ~AllAvailable(model_status)
    /\ ~NoneAvailable(model_status)

\* C23: the construction of a crew at the start of a run registers the
\* primary and every fallback and marks them all available, whatever flags
\* the manager before it was left with, and the run keeps them so.
FreshRegistryPerRun ==
    /\ [][runId' # runId =>
            model_status' = [m \in Registered |-> TRUE]]_vars
    /\ [](runId >= 1 =>
            /\ DOMAIN model_status = Registered
            /\ AllAvailable(model_status))

FreshRegistryPerRunWitness ==
    /\ runId = 2
    /\ phase = "running"
    /\ Len(fallback_models) = 2
    /\ AllAvailable(model_status)
    /\ last.op = "get"
    /\ last.result.model = primary_model

\* The provider selected from the given flags when priority is the order of
\* the registry's keys, each identifier at its first position only.
FirstByKeys(status) ==
    StatusKeys[CHOOSE i \in 1..Len(StatusKeys) :
                  /\ status[StatusKeys[i]]
                  /\ \A j \in 1..(i - 1) : ~status[StatusKeys[j]]]

\* C24: whatever the configuration, repeated identifiers included, the
\* registry holds each identifier once; a request is allowed as many
\* attempts as there are registered providers; and no identifier has two
\* priority positions: selection goes by the first position of each.
UniqueIdentifiers ==
    /\ \A i, j \in 1..Len(StatusKeys) :
          i # j => StatusKeys[i] # StatusKeys[j]
    /\ Range(StatusKeys) = DOMAIN model_status
    /\ Len(StatusKeys) = Cardinality(Registered)
    /\ last.op = "gen" =>
          /\ Len(last.attempts) <= Cardinality(Registered)
          /\ last.result.kind = "None" =>
                Len(last.attempts) = Cardinality(Registered)
    /\ last.op \in {"get", "gen"} =>
          Selected = FirstByKeys(IF last.attempts[1].reset
                                 THEN [m \in Registered |-> TRUE]
                                 ELSE last.start)

UniqueIdentifiersWitness ==
    /\ Len(fallback_models) = 2
    /\ primary_model \in Range(fallback_models)
    /\ Cardinality(Registered) = 2
    /\ last.op = "gen"
    /\ last.result.kind = "None"
    /\ Len(last.attempts) = 2

\* C25: reset_model_status leaves every provider available, from any flags
\* it finds; it changes neither the providers nor their order; and a second
\* reset_model_status right after the first changes nothing any more.
ResetMakesAllAvailable ==
    /\ [](last.op = "reset" =>
            /\ model_status = [m \in DOMAIN last.start |-> TRUE]
            /\ DOMAIN model_status = Registered)
    /\ [][(last'.op = "reset" /\ last' # last) =>
            /\ config' = config
            /\ healthy' = healthy
            /\ (last.op = "reset" => model_status' = model_status)]_vars

ResetMakesAllAvailableWitness ==
    /\ last.op = "reset"
    /\ NoneAvailable(last.start)
    /\ AllAvailable(model_status)
    /\ prev.op = "gen"
    /\ prev.kind = "None"

\* ------------------------------------------------------------------------
\* Properties of calls made one at a time from construction
\* ------------------------------------------------------------------------
\* The flags the i-th attempt of the last call was selected from.
FlagsBefore(i) == Replay(last.start, SubSeq(last.attempts, 1, i - 1), 1).status

Available(status) == {m \in DOMAIN status : status[m]}

\* C26: no provider is attempted twice within one generate_completion call,
\* also when the call resets the registry half-way.
NoRepeatedAttempt ==
    last.op = "gen" =>
        \A i, j \in 1..Len(last.attempts) :
            i # j => last.attempts[i].model # last.attempts[j].model

NoRepeatedAttemptWitness ==
    /\ last.op = "gen"
    /\ Len(last.attempts) = 3
    /\ Cardinality({last.attempts[i].model : i \in 1..3}) = 3
    /\ last.attempts[3].reset
    /\ last.attempts[3].model = primary_model

\* C27: between calls the available providers are a suffix of the priority
\* order: behind an available provider every provider is available.
AvailableIsSuffix ==
    \A i, j \in 1..Len(StatusKeys) :
        (i < j /\ model_status[StatusKeys[i]]) => model_status[StatusKeys[j]]

AvailableIsSuffixWitness ==
    /\ Len(StatusKeys) = 3
    /\ ~model_status[StatusKeys[1]]
    /\ ~model_status[StatusKeys[2]]
    /\ model_status[StatusKeys[3]]
    /\ last.op = "gen"
    /\ last.result.kind = "payload"

\* C28: a request goes to a provider whose flag is cleared only after a
\* full reset, made when every flag was cleared; and a call without a full
\* reset, successful or not, sets no flag that was cleared before it.
StickyFallback ==
    last.op \in {"get", "gen"} =>
        /\ \A i \in 1..Len(last.attempts) :
              ~FlagsBefore(i)[last.attempts[i].model] =>
                  (last.attempts[i].reset /\ NoneAvailable(FlagsBefore(i)))
        /\ (\A i \in 1..Len(last.attempts) : ~last.attempts[i].reset) =>
              Available(model_status) \subseteq Available(last.start)

StickyFallbackWitness ==
    /\ last.op = "gen"
    /\ prev.op = "gen"
    /\ Len(last.attempts) = 1
    /\ last.result.kind = "payload"
    /\ last.result.model = fallback_models[1]
    /\ last.result.model # primary_model
    /\ ~last.start[primary_model]
    /\ ~model_status[primary_model]

\* C29: a generate_completion call in which every attempt failed, begun
\* with k of the N providers available, leaves no provider available when
\* k = N or k = 0 and leaves the flags as it found them when 0 < k < N.
FlagsAfterTotalFailure ==
    (last.op = "gen" /\ last.result.kind = "None") =>
        LET k == Cardinality(Available(last.start))
            N == Cardinality(DOMAIN last.start) IN
        IF k = N \/ k = 0 THEN NoneAvailable(model_status)
        ELSE model_status = last.start

FlagsAfterTotalFailureWitness ==
    /\ last.op = "gen"
    /\ last.result.kind = "None"
    /\ ThreeProviders
    /\ Cardinality(Available(last.start)) = 1
    /\ model_status = last.start
    /\ last.attempts[2].reset

\* ------------------------------------------------------------------------
\* Properties of concurrent callers (continued)
\* ------------------------------------------------------------------------
\* C30: the failure of a request that was issued before the most recent
\* full reset does not clear the flag of its provider after that reset.
NoStaleFailureMark ==
    [][\A c \in Callers :
          (c \in stale /\ pc[c] = "post" /\ pc'[c] # "post") =>
              model_status'[model[c]] = model_status[model[c]]]_vars

=============================================================================
